---- MODULE Spec2Model ----
(***************************************************************************)
(* Model of the PermissionSet of package goahead (src/permissions.go):     *)
(* a growable bit vector with one optional child PermissionSet per bit     *)
(* index, its algebra (Set, Clear, Union, InPlaceIntersection, Walk,       *)
(* HasMultiple, ...) and its binary codec.                                 *)
(*                                                                         *)
(* A PermissionSet is the record                                           *)
(*   [ID, bits, childrenNil, children]                                     *)
(* ID           the uint64 identifier, held as its base-128 digits, least  *)
(*              significant first, without trailing zeros (0 is << >>);    *)
(*              this is the digit string encoding/binary's varint writes.  *)
(* bits         the bitset.BitSet: [length, set], length the high-water    *)
(*              mark (Len()), set the indices whose bit is 1.              *)
(* childrenNil  TRUE while the Go map `children` is nil.                   *)
(* children     the Go map as a function from index to PermissionSet.      *)
(* Methods with a pointer receiver are operators returning the receiver's  *)
(* value after the call.                                                   *)
(***************************************************************************)
EXTENDS Integers, Sequences, FiniteSets

VARIABLES p, q, pre, op, last, buf, dec

vars == <<p, q, pre, op, last, buf, dec>>

(***************************************************************************)
(* Helpers                                                                 *)
(***************************************************************************)
Max(S) == CHOOSE x \in S : \A y \in S : y <= x

Min(S) == CHOOSE x \in S : \A y \in S : x <= y

SeqsUpTo(S, n) == UNION {[1..k -> S] : k \in 0..n}

EmptyMap == [x \in {} |-> x]

(***************************************************************************)
(* bitset.BitSet as used by permissions.go                                 *)
(***************************************************************************)
\* the zero value of bitset.BitSet
NewBits == [length |-> 0, set |-> {}]

\* p.bits.Test(i): an index at or beyond the length reads false
Test(b, i) == i < b.length /\ i \in b.set

\* p.bits.Set(i): grows the vector to i+1 when needed
BitSet(b, i) ==
    [length |-> IF i >= b.length THEN i + 1 ELSE b.length, set |-> b.set \cup {i}]

\* p.bits.Clear(i): no effect at or beyond the length, never shrinks
BitClear(b, i) == IF i >= b.length THEN b ELSE [b EXCEPT !.set = @ \ {i}]

\* other.bits.NextSet(i): the least set index >= i, or -1 when there is none
NextSet(b, i) ==
    LET S == {j \in b.set : j >= i /\ j < b.length}
    IN IF S = {} THEN -1 ELSE Min(S)

\* p.bits.InPlaceUnion(&other.bits)
BitsInPlaceUnion(b, c) ==
    [length |-> IF c.length > b.length THEN c.length ELSE b.length,
     set |-> b.set \cup c.set]

\* p.bits.InPlaceIntersection(&other.bits)
BitsInPlaceIntersection(b, c) ==
    [length |-> IF c.length > b.length THEN c.length ELSE b.length,
     set |-> b.set \cap c.set]

(***************************************************************************)
(* PermissionSet                                                           *)
(***************************************************************************)
\* new(PermissionSet)
NewSet == [ID |-> << >>, bits |-> NewBits, childrenNil |-> TRUE, children |-> EmptyMap]

Has(s, index) == Test(s.bits, index)

\* p.Len(); Len itself names the length of a sequence here
PLen(s) == s.bits.length

IsEmpty(s) == s.bits.set = {}

RECURSIVE Set(_, _)
Set(s, indices) ==
    IF indices = << >> THEN s
    ELSE Set([s EXCEPT !.bits = BitSet(@, Head(indices))], Tail(indices))

\* Clear that stops after its first index
ClearFirstOnly(s, indices) ==
    IF indices = << >> THEN s
    ELSE [s EXCEPT !.bits = BitClear(@, Head(indices))]

RECURSIVE Clear(_, _)
Clear(s, indices) ==
    IF indices = << >> THEN s
    ELSE Clear([s EXCEPT !.bits = BitClear(@, Head(indices))], Tail(indices))

\* the receiver after s.Child(index): the map is made, the entry created
Child(s, index) ==
    IF index \in DOMAIN s.children
    THEN [s EXCEPT !.childrenNil = FALSE]
    ELSE [s EXCEPT !.childrenNil = FALSE,
                   !.children = [k \in DOMAIN s.children \cup {index} |->
                                   IF k = index THEN NewSet ELSE s.children[k]]]

\* All builds a bit set of the indices, sized to the receiver, and tests
\* IsSuperSet
All(s, indices) ==
    \A k \in 1..Len(indices) : Test(s.bits, indices[k])

\* Any intersects that bit set with the receiver's
Any(s, indices) ==
    \E k \in 1..Len(indices) : Test(s.bits, indices[k])

\* Walk's loop returning false once every index has been tested
RECURSIVE WalkLoopExhaustedFalse(_, _, _)
WalkLoopExhaustedFalse(root, set, indices) ==
    IF indices = << >> THEN FALSE
    ELSE LET i == Head(indices)
         IN IF Test(set.bits, i)
            THEN IF root.childrenNil THEN TRUE
                 ELSE IF i \in DOMAIN set.children
                      THEN WalkLoopExhaustedFalse(root, set.children[i], Tail(indices))
                      ELSE TRUE
            ELSE FALSE

\* Walk's loop: root is the receiver p, set the level reached so far
RECURSIVE WalkLoop(_, _, _)
WalkLoop(root, set, indices) ==
    IF indices = << >> THEN TRUE
    ELSE LET i == Head(indices)
         IN IF Test(set.bits, i)
            THEN IF root.childrenNil THEN TRUE
                 ELSE IF i \in DOMAIN set.children
                      THEN WalkLoop(root, set.children[i], Tail(indices))
                      ELSE TRUE
            ELSE FALSE

Walk(s, indices) == WalkLoop(s, s, indices)

\* HasMultiple's loop body for one key k with child indices v: the values
\* slice and the receiver afterwards.  Go's values[i] is values[i + 1] here.
HasMultipleKey(s, k, v) ==
    LET length == IF Len(v) > 1 THEN Len(v) ELSE 1
        s1     == IF Has(s, k) THEN Child(s, k) ELSE s
        values == [n \in 1..length |->
                     IF ~Has(s, k) THEN FALSE
                     ELSE IF PLen(s1.children[k]) > 0 /\ n <= Len(v)
                          THEN Has(s1.children[k], v[n])
                          ELSE n = 1]
    IN [values |-> values, set |-> s1]

\* one map of the variadic argument; the keys are visited in some order, and
\* each key reads and writes only its own child and its own result
RECURSIVE HasMultipleMap(_, _, _)
HasMultipleMap(acc, m, keys) ==
    IF keys = {} THEN acc
    ELSE LET k == Min(keys)
             r == HasMultipleKey(acc.set, k, m[k])
         IN HasMultipleMap(
              [results |-> [x \in DOMAIN acc.results \cup {k} |->
                              IF x = k THEN r.values ELSE acc.results[x]],
               set |-> r.set],
              m, keys \ {k})

RECURSIVE HasMultipleLoop(_, _)
HasMultipleLoop(acc, sets) ==
    IF sets = << >> THEN acc
    ELSE HasMultipleLoop(HasMultipleMap(acc, Head(sets), DOMAIN Head(sets)), Tail(sets))

\* [results |-> the returned map, set |-> the receiver afterwards]
HasMultiple(s, sets) == HasMultipleLoop([results |-> EmptyMap, set |-> s], sets)

\* Union's loop from index i on, then the raw InPlaceUnion
RECURSIVE UnionLoop(_, _, _)
RECURSIVE Union(_, _)
\* Union that merges only where the receiver already has the bit
RECURSIVE UnionLoopWhereSet(_, _, _)
UnionLoopWhereSet(s, other, from) ==
    LET i == NextSet(other.bits, from)
    IN IF i = -1 THEN s
       ELSE LET s2 == IF Has(s, i) /\ i \in DOMAIN other.children
                      THEN LET c == Child(s, i)
                           IN [c EXCEPT !.children[i] = Union(@, other.children[i])]
                      ELSE s
            IN UnionLoopWhereSet(s2, other, i + 1)

UnionLoop(s, other, from) ==
    LET i == NextSet(other.bits, from)
    IN IF i = -1 THEN [s EXCEPT !.bits = BitsInPlaceUnion(@, other.bits)]
       ELSE LET s1 == Set(s, <<i>>)
                s2 == IF i \in DOMAIN other.children
                      THEN LET c == Child(s1, i)
                           IN [c EXCEPT !.children[i] = Union(@, other.children[i])]
                      ELSE s1
            IN UnionLoop(s2, other, i + 1)

Union(s, other) == UnionLoop(s, other, 0)

\* s.Union(s): other is the receiver itself, so every read of other sees
\* the receiver as changed so far
RECURSIVE UnionSelfLoop(_, _)
RECURSIVE UnionSelf(_)
UnionSelfLoop(s, from) ==
    LET i == NextSet(s.bits, from)
    IN IF i = -1 THEN [s EXCEPT !.bits = BitsInPlaceUnion(@, s.bits)]
       ELSE LET s1 == Set(s, <<i>>)
                s2 == IF i \in DOMAIN s1.children
                      THEN LET c == Child(s1, i)
                           IN [c EXCEPT !.children[i] = UnionSelf(@)]
                      ELSE s1
            IN UnionSelfLoop(s2, i + 1)

UnionSelf(s) == UnionSelfLoop(s, 0)

\* InPlaceIntersection's loop from index i on, then the raw
\* InPlaceIntersection of the bit vectors
RECURSIVE InPlaceIntersectionLoop(_, _, _)
RECURSIVE InPlaceIntersection(_, _)
\* the loop setting every bit of other in the receiver as it goes, in the
\* children too, and the raw operation left out
RECURSIVE InPlaceIntersectionLoopSet(_, _, _)
InPlaceIntersectionLoopSet(s, other, from) ==
    LET i == NextSet(other.bits, from)
    IN IF i = -1 THEN s
       ELSE LET s0 == Set(s, <<i>>)
                s1 == IF i \in DOMAIN other.children
                      THEN LET c == Child(s0, i)
                           IN [c EXCEPT !.children[i] =
                                 InPlaceIntersection(@, other.children[i])]
                      ELSE s0
            IN InPlaceIntersectionLoopSet(s1, other, i + 1)

InPlaceIntersectionLoop(s, other, from) ==
    LET i == NextSet(other.bits, from)
    IN IF i = -1 THEN [s EXCEPT !.bits = BitsInPlaceIntersection(@, other.bits)]
       ELSE LET s1 == IF Has(s, i) /\ i \in DOMAIN other.children
                      THEN LET c == Child(s, i)
                           IN [c EXCEPT !.children[i] =
                                 InPlaceIntersection(@, other.children[i])]
                      ELSE s
            IN InPlaceIntersectionLoop(s1, other, i + 1)

InPlaceIntersection(s, other) == InPlaceIntersectionLoop(s, other, 0)

(***************************************************************************)
(* Bounds and input sets                                                   *)
(***************************************************************************)
\* depth of the trees the queries are run on
MaxDepth == 2

\* depth of the trees Union and InPlaceIntersection are run on
PairDepth == 1

\* Set and Clear are run on the indices 0..MaxIdx
MaxIdx == 2

\* number of indices in one variadic call
MaxArgs == 2

\* bit indices the trees are built from
Indices == {2, 5}

\* indices asked about: those and one beyond every length
QIdx == Indices \cup {9}

\* the vector after Set(S...)
BitsOf(S) == [length |-> IF S = {} THEN 0 ELSE Max(S) + 1, set |-> S]

Leaf(S) == [NewSet EXCEPT !.bits = BitsOf(S)]

\* node with the one child c at index i, as after Child(i)
WithChild(s, i, c) ==
    [s EXCEPT !.childrenNil = FALSE,
              !.children = [k \in DOMAIN s.children \cup {i} |->
                              IF k = i THEN c ELSE s.children[k]]]

\* trees of depth <= d: any bits at each level, at most one refined index
\* per level (Union and HasMultiple add further children)
RECURSIVE Trees(_)
Trees(d) ==
    IF d = 0 THEN {Leaf(S) : S \in SUBSET Indices}
    ELSE LET sub == Trees(d - 1)
         IN {Leaf(S) : S \in SUBSET Indices}
            \cup {WithChild(Leaf(S), i, c) : S \in SUBSET Indices, i \in Indices, c \in sub}

\* root bits {3,5}, child at 5 with bit {2}
ExampleWalk == WithChild(Leaf({3, 5}), 5, Leaf({2}))

\* bit 5 set, child at 5 with bit {1}
ExampleHasMultiple == WithChild(Leaf({5}), 5, Leaf({1}))

\* bit 5 set, child at 5 that had bit 2 set and cleared: Len() > 0, no bit
ExampleCleared == WithChild(Leaf({5}), 5, Clear(Leaf({2}), <<2>>))

QueryTrees == Trees(MaxDepth) \cup {ExampleWalk, ExampleHasMultiple, ExampleCleared}

Paths == SeqsUpTo(QIdx, MaxDepth + 1) \cup {<<4>>}

\* index lists of the variadic calls: over the tree's indices, and some
\* naming the index beyond every length
IndexLists == SeqsUpTo(Indices, MaxArgs) \cup {<<9>>, <<5, 9>>, <<9, 2>>}

\* arguments of HasMultiple: one map with one key, one map with two keys,
\* and the same key in two maps
HasMultipleArgs ==
    {<<[k \in {i} |-> v]>> : i \in Indices, v \in IndexLists}
    \cup {<<[k \in Indices |-> v]>> : v \in {<< >>, <<2>>, <<5, 2>>}}
    \cup {<<[k \in {5} |-> <<1, 2>>]>>}
    \cup {<<[k \in {5} |-> <<2>>], [k \in {5} |-> v]>> : v \in {<< >>, <<5, 2>>}}

NoBuf == [data |-> << >>, len |-> 0]

NoDec == [err |-> "none", set |-> NewSet]

Call(name, args, ret) == [name |-> name, args |-> args, ret |-> ret]

NoCall == Call("init", << >>, FALSE)

Range(f) == {f[x] : x \in DOMAIN f}

(***************************************************************************)
(* Queries on one tree                                                     *)
(***************************************************************************)
Init ==
    /\ p \in QueryTrees
    /\ q = NewSet
    /\ pre = p
    /\ op = NoCall
    /\ last = EmptyMap
    /\ buf = NoBuf
    /\ dec = NoDec

\* a call on the receiver p that returns ret and leaves the receiver as after;
\* op holds the call until the caller has taken its result (Return)
Query(name, args, ret, after) ==
    /\ op.name = "init"
    /\ op' = Call(name, args, ret)
    /\ pre' = p
    /\ p' = after
    /\ UNCHANGED <<q, last, buf, dec>>

HasCall == \E i \in QIdx : Query("Has", <<i>>, Has(p, i), p)

AllCall == \E l \in IndexLists : Query("All", l, All(p, l), p)

AnyCall == \E l \in IndexLists : Query("Any", l, Any(p, l), p)

WalkCall == \E l \in Paths : Query("Walk", l, Walk(p, l), p)

HasMultipleCall ==
    \E a \in HasMultipleArgs :
        LET r == HasMultiple(p, a) IN Query("HasMultiple", a, r.results, r.set)

IsEmptyCall == Query("IsEmpty", << >>, IsEmpty(p), p)

LenCall == Query("Len", << >>, PLen(p), p)

\* the caller is ready for its next call, on the receiver as it is now
Return ==
    /\ op.name # "init"
    /\ op' = NoCall
    /\ pre' = p
    /\ UNCHANGED <<p, q, last, buf, dec>>

Next ==
    \/ HasCall
    \/ AllCall
    \/ AnyCall
    \/ WalkCall
    \/ HasMultipleCall
    \/ IsEmptyCall
    \/ LenCall
    \/ Return

Spec == Init /\ [][Next]_vars

(***************************************************************************)
(* Set and Clear from the empty set                                        *)
(***************************************************************************)
SCIdx == 0..MaxIdx

InitSetClear ==
    /\ p = NewSet
    /\ q = NewSet
    /\ pre = NewSet
    /\ op = NoCall
    /\ last = [i \in SCIdx |-> "none"]
    /\ buf = NoBuf
    /\ dec = NoDec

\* last: for each index, the most recent call that named it
Named(name, indices) ==
    [i \in SCIdx |-> IF i \in Range(indices) THEN name ELSE last[i]]

SetCall ==
    \E l \in SeqsUpTo(SCIdx, MaxArgs) :
        /\ p' = Set(p, l)
        /\ pre' = p
        /\ op' = Call("Set", l, FALSE)
        /\ last' = Named("Set", l)
        /\ UNCHANGED <<q, buf, dec>>

ClearCall ==
    \E l \in SeqsUpTo(SCIdx, MaxArgs) :
        /\ p' = Clear(p, l)
        /\ pre' = p
        /\ op' = Call("Clear", l, FALSE)
        /\ last' = Named("Clear", l)
        /\ UNCHANGED <<q, buf, dec>>

NextSetClear ==
    \/ SetCall
    \/ ClearCall

SpecSetClear == InitSetClear /\ [][NextSetClear]_vars

(***************************************************************************)
(* Union and InPlaceIntersection of two trees                              *)
(***************************************************************************)
PairTrees == Trees(PairDepth)

InitCombine ==
    /\ p \in PairTrees
    /\ q \in PairTrees
    /\ pre = p
    /\ op = NoCall
    /\ last = EmptyMap
    /\ buf = NoBuf
    /\ dec = NoDec

\* p.Union(q)
UnionCall ==
    /\ op.name = "init"
    /\ p' = Union(p, q)
    /\ pre' = p
    /\ op' = Call("Union", << >>, FALSE)
    /\ UNCHANGED <<q, last, buf, dec>>

\* q.Union(p): pre holds q as it was
UnionSwapCall ==
    /\ op.name = "init"
    /\ q' = Union(q, p)
    /\ pre' = q
    /\ op' = Call("UnionSwap", << >>, FALSE)
    /\ UNCHANGED <<p, last, buf, dec>>

\* p.Union(p)
UnionSelfCall ==
    /\ op.name = "init"
    /\ p' = UnionSelf(p)
    /\ pre' = p
    /\ op' = Call("UnionSelf", << >>, FALSE)
    /\ UNCHANGED <<q, last, buf, dec>>

\* p.InPlaceIntersection(q)
InPlaceIntersectionCall ==
    /\ op.name = "init"
    /\ p' = InPlaceIntersection(p, q)
    /\ pre' = p
    /\ op' = Call("InPlaceIntersection", << >>, FALSE)
    /\ UNCHANGED <<q, last, buf, dec>>

NextCombine ==
    \/ UnionCall
    \/ UnionSwapCall
    \/ UnionSelfCall
    \/ InPlaceIntersectionCall

SpecCombine == InitCombine /\ [][NextCombine]_vars

(***************************************************************************)
(* Binary codec.  Bytes are 0..255; a uint64 is its base-128 digits, least *)
(* significant first, without trailing zeros.                              *)
(***************************************************************************)
\* the digits of a small natural (sizes, indices, lengths)
RECURSIVE Digits(_)
Digits(n) == IF n = 0 THEN << >> ELSE <<n % 128>> \o Digits(n \div 128)

\* stands for every value of 2^28 or more: beyond any buffer modelled
Huge == 2 ^ 28

\* the value of at most four digits, Huge beyond
RECURSIVE Value(_)
Value(d) ==
    IF d = << >> THEN 0
    ELSE IF Len(d) > 4 THEN Huge
    ELSE Head(d) + 128 * Value(Tail(d))

\* digits without their trailing zeros
RECURSIVE Normal(_)
Normal(d) ==
    IF d = << >> THEN d
    ELSE IF d[Len(d)] = 0 THEN Normal(SubSeq(d, 1, Len(d) - 1))
    ELSE d

\* binary.PutUvarint: the bytes written, 7 bits each, the high bit set on
\* all but the last
PutUvarint(x) ==
    IF x = << >> THEN <<0>>
    ELSE [k \in 1..Len(x) |-> IF k < Len(x) THEN x[k] + 128 ELSE x[k]]

\* binary.Uvarint(b): [val, n]; n = 0 when b ends before the value does,
\* n < 0 on a value wider than 64 bits
Uvarint(b) ==
    LET ends == {k \in 1..Len(b) : b[k] < 128}
    IN IF ends = {} THEN [val |-> << >>, n |-> 0]
       ELSE LET k == Min(ends)
            IN IF k > 10 \/ (k = 10 /\ b[k] > 1)
               THEN [val |-> << >>, n |-> 0 - k]
               ELSE [val |-> Normal([j \in 1..k |-> b[j] % 128]), n |-> k]

Zeros(n) == [k \in 1..n |-> 0]

\* writing bytes into data from offset off on: PutUvarint(data[off:], x),
\* copy(data[off:], bytes)
PutAt(data, off, bytes) ==
    [k \in 1..Len(data) |->
        IF k > off /\ k <= off + Len(bytes) THEN bytes[k - off] ELSE data[k]]

\* the byte of word w at position k (1 the most significant) of a bit set
WordByte(set, w, k) ==
    LET base == 64 * w + 8 * (8 - k)
        bit(j) == IF base + j \in set THEN 1 ELSE 0
    IN bit(0) + 2 * bit(1) + 4 * bit(2) + 8 * bit(3)
       + 16 * bit(4) + 32 * bit(5) + 64 * bit(6) + 128 * bit(7)

\* big-endian uint64 of a length below 2^24
LengthBytes(n) ==
    <<0, 0, 0, 0, 0, (n \div 65536) % 256, (n \div 256) % 256, n % 256>>

WordsNeeded(length) == (length + 63) \div 64

\* p.bits.MarshalBinary(): the length, then the words, big-endian
BitsMarshalBinary(b) ==
    LengthBytes(b.length)
    \o [k \in 1..(8 * WordsNeeded(b.length)) |->
          WordByte(b.set, (k - 1) \div 8, ((k - 1) % 8) + 1)]

\* the indices j whose bit is set in byte v
ByteBits(v) == {j \in 0..7 : (v \div (2 ^ j)) % 2 = 1}

\* p.bits.UnmarshalBinary(data): [err, bits]; the receiver b is kept on error
BitsUnmarshalBinary(b, data) ==
    IF Len(data) < 8 THEN [err |-> "bitset", bits |-> b]
    ELSE IF \E k \in 1..5 : data[k] # 0 THEN [err |-> "bitset", bits |-> b]
    ELSE LET length == 65536 * data[6] + 256 * data[7] + data[8]
             n      == WordsNeeded(length)
         IN IF Len(data) < 8 + 8 * n THEN [err |-> "bitset", bits |-> b]
            ELSE [err |-> "nil",
                  bits |-> [length |-> length,
                            set |-> UNION {{64 * ((k - 1) \div 8) + 8 * (8 - (((k - 1) % 8) + 1)) + j :
                                              j \in ByteBits(data[8 + k])} : k \in 1..(8 * n)}]]

\* the next child index of the range over p.children: Go fixes no order,
\* desc picks the descending one
NextKey(keys, desc) == IF desc THEN Max(keys) ELSE Min(keys)

RECURSIVE MarshalBinary(_, _)
RECURSIVE MarshalChildren(_, _, _, _)
\* the loop over p.children: acc is [data, size]
MarshalChildren(acc, s, keys, desc) ==
    IF keys = {} THEN acc
    ELSE LET i      == NextKey(keys, desc)
             b      == MarshalBinary(s.children[i], desc)
             header == PutAt(Zeros(8), 0, PutUvarint(Digits(i)))
         IN MarshalChildren([data |-> acc.data \o header \o b,
                             size |-> acc.size + 8 + Len(b)],
                            s, keys \ {i}, desc)

MarshalBinary(s, desc) ==
    LET bytes == BitsMarshalBinary(s.bits)
        size  == Len(bytes)
        d1    == PutAt(Zeros(24 + size), 0, PutUvarint(s.ID))
        d2    == PutAt(d1, 8, PutUvarint(Digits(size)))
        d3    == PutAt(d2, 24, bytes)
        acc   == MarshalChildren([data |-> d3, size |-> size], s, DOMAIN s.children, desc)
    IN PutAt(acc.data, 16, PutUvarint(Digits(acc.size + 24)))

\* b[lo:hi] of a backing array b, as a sequence (lo, hi are Go offsets)
Slice(b, lo, hi) == SubSeq(b, lo + 1, hi)

RECURSIVE UnmarshalBinary(_, _, _, _)
RECURSIVE UnmarshalChildren(_, _, _, _, _)
\* the loop `for maxLen > offset`; s is the receiver so far.  The slice data
\* is b[lo:lo+maxLen], its capacity reaches the end of b.
UnmarshalChildren(s, b, lo, maxLen, offset) ==
    LET cap == Len(b) - lo
    IN IF ~(maxLen > offset) THEN [err |-> "nil", set |-> s]
       ELSE IF offset + 7 > cap THEN [err |-> "panic", set |-> s]
       ELSE LET idx == Uvarint(Slice(b, lo + offset, lo + offset + 7))
            IN IF idx.n = 0 THEN [err |-> "ErrBufTooSmall", set |-> s]
               ELSE IF idx.n < 0 THEN [err |-> "ErrBufOveflow", set |-> s]
               ELSE IF offset + 31 > cap THEN [err |-> "panic", set |-> s]
               ELSE LET cs == Uvarint(Slice(b, lo + offset + 24, lo + offset + 31))
                    IN IF cs.n = 0 THEN [err |-> "ErrBufTooSmall", set |-> s]
                       ELSE IF cs.n < 0 THEN [err |-> "ErrBufOveflow", set |-> s]
                       ELSE LET childSize == Value(cs.val)
                            IN IF offset + 8 + childSize > cap
                               THEN [err |-> "panic", set |-> s]
                               ELSE LET c == UnmarshalBinary(NewSet, b, lo + offset + 8, childSize)
                                    IN IF c.err # "nil" THEN [err |-> c.err, set |-> s]
                                       ELSE UnmarshalChildren(
                                              WithChild(s, Value(idx.val), c.set),
                                              b, lo, maxLen, offset + 8 + childSize)

\* s.UnmarshalBinary(b[lo:lo+maxLen]): [err, set], set the receiver when the
\* call ends; err "panic" is a slice bound out of range
UnmarshalBinary(s, b, lo, maxLen) ==
    LET cap == Len(b) - lo
    IN IF maxLen = 0 THEN [err |-> "nil", set |-> s]
       ELSE IF 7 > cap THEN [err |-> "panic", set |-> s]
       ELSE LET id == Uvarint(Slice(b, lo, lo + 7))
                s1 == [s EXCEPT !.ID = id.val]
            IN IF id.n = 0 THEN [err |-> "ErrBufTooSmall", set |-> s1]
               ELSE IF id.n < 0 THEN [err |-> "ErrBufOveflow", set |-> s1]
               ELSE IF 15 > cap THEN [err |-> "panic", set |-> s1]
               ELSE LET sz == Uvarint(Slice(b, lo + 8, lo + 15))
                    IN IF sz.n = 0 THEN [err |-> "ErrBufTooSmall", set |-> s1]
                       ELSE IF sz.n < 0 THEN [err |-> "ErrBufOveflow", set |-> s1]
                       ELSE LET size == Value(sz.val)
                            IN IF 24 + size > cap THEN [err |-> "panic", set |-> s1]
                               ELSE LET r  == BitsUnmarshalBinary(s1.bits, Slice(b, lo + 24, lo + 24 + size))
                                        s2 == [s1 EXCEPT !.bits = r.bits]
                                        offset == 24 + size
                                    IN IF r.err # "nil" THEN [err |-> r.err, set |-> s2]
                                       ELSE IF maxLen > offset
                                       THEN UnmarshalChildren(
                                              [s2 EXCEPT !.childrenNil = FALSE, !.children = EmptyMap],
                                              b, lo, maxLen, offset)
                                       ELSE [err |-> "nil", set |-> s2]

(***************************************************************************)
(* MarshalBinary, then UnmarshalBinary of the output or of a prefix of it  *)
(***************************************************************************)
\* depth of the trees encoded
CodecDepth == 2

\* identifiers: 0, 300, 2^49 - 1, 2^49, 2^56 and 2^64 - 1
ID0 == << >>

ID300 == <<44, 2>>

IDMax7 == <<127, 127, 127, 127, 127, 127, 127>>

ID2p49 == <<0, 0, 0, 0, 0, 0, 0, 1>>

ID2p56 == <<0, 0, 0, 0, 0, 0, 0, 0, 1>>

IDMax == <<127, 127, 127, 127, 127, 127, 127, 127, 127, 1>>

IDSamples == {ID0, ID300, IDMax7, ID2p49, ID2p56, IDMax}

Node(id, S) == [Leaf(S) EXCEPT !.ID = id]

\* the subtrees below the root: chains of depth <= d
RECURSIVE CodecKids(_)
CodecKids(d) ==
    LET leaves == {Node(ID0, {}), Node(ID0, {2}), Node(ID2p49, {2})}
    IN IF d = 0 THEN leaves
       ELSE leaves \cup {WithChild(l, i, c) : l \in leaves, i \in Indices, c \in CodecKids(d - 1)}

\* roots without child, with one child, with two children
CodecTrees ==
    LET roots == {Node(id, S) : id \in IDSamples, S \in SUBSET Indices}
    IN roots
       \cup {WithChild(r, i, c) : r \in roots, i \in Indices, c \in CodecKids(CodecDepth - 1)}
       \cup {WithChild(WithChild(r, 2, c1), 5, c2) :
               r \in roots, c1 \in CodecKids(0), c2 \in CodecKids(0)}

\* the sets UnmarshalBinary is called on: a fresh one and a used one
Targets == {NewSet, Node(ID300, {5})}

InitCodec ==
    /\ p \in CodecTrees
    /\ q = NewSet
    /\ pre = p
    /\ op = NoCall
    /\ last = EmptyMap
    /\ buf = NoBuf
    /\ dec = NoDec

\* data, _ := p.MarshalBinary(); buf is the slice: its backing array and len
MarshalBinaryCall ==
    /\ op.name = "init"
    /\ \E desc \in BOOLEAN :
          LET data == MarshalBinary(p, desc)
          IN buf' = [data |-> data, len |-> Len(data)]
    /\ op' = Call("MarshalBinary", << >>, FALSE)
    /\ UNCHANGED <<p, q, pre, last, dec>>

\* the caller cuts the encoding short: data[:n], which keeps the backing
\* array, or a copy of those n bytes
Truncate ==
    /\ op.name = "MarshalBinary"
    /\ \E n \in 0..(buf.len - 1), copy \in BOOLEAN :
          buf' = [data |-> IF copy THEN SubSeq(buf.data, 1, n) ELSE buf.data, len |-> n]
    /\ op' = Call("Truncate", << >>, FALSE)
    /\ UNCHANGED <<p, q, pre, last, dec>>

\* err := q.UnmarshalBinary(data); op.args tells what the input was
UnmarshalBinaryCall ==
    /\ op.name \in {"MarshalBinary", "Truncate"}
    /\ \E t \in Targets :
          /\ q' = t
          /\ dec' = UnmarshalBinary(t, buf.data, 0, buf.len)
    /\ op' = Call("UnmarshalBinary", <<op.name>>, FALSE)
    /\ UNCHANGED <<p, pre, last, buf>>

NextCodec ==
    \/ MarshalBinaryCall
    \/ Truncate
    \/ UnmarshalBinaryCall

SpecCodec == InitCodec /\ [][NextCodec]_vars

(***************************************************************************)
(* Properties                                                              *)
(***************************************************************************)
\* the indices that read true
HasSet(s) == {i \in 0..(PLen(s) - 1) : Has(s, i)}

\* every index a property asks about
AllIdx == 0..10

\* the rule of hierarchical grants, applied from the root
RECURSIVE WalkRule(_, _)
WalkRule(t, path) ==
    IF path = << >> THEN TRUE
    ELSE IF ~Has(t, Head(path)) THEN FALSE
    ELSE IF Head(path) \notin DOMAIN t.children THEN TRUE
    ELSE WalkRule(t.children[Head(path)], Tail(path))

\* C1: Walk(path) is the rule applied from the root: false at an unset bit,
\* true at a set bit without child, onward into the child otherwise, true
\* when the path is exhausted; so Walk([]) is true, Walk([i]) is Has(i) when
\* there is no child at i, and on root {3,5} with child 5 = {2} Walk([5,2])
\* is true, Walk([5,9]) and Walk([4]) are false.
C1_WalkFollowsRule ==
    op.name = "Walk" =>
        /\ op.ret = WalkRule(pre, op.args)
        /\ op.args = << >> => op.ret = TRUE
        /\ (Len(op.args) = 1 /\ op.args[1] \notin DOMAIN pre.children)
              => op.ret = Has(pre, op.args[1])
        /\ pre = ExampleWalk =>
              /\ op.args = <<5, 2>> => op.ret = TRUE
              /\ op.args = <<5, 9>> => op.ret = FALSE
              /\ op.args = <<4>> => op.ret = FALSE

\* Walk went down into the child at 5 of the example tree and failed there
C1_Witness ==
    /\ op.name = "Walk"
    /\ pre = ExampleWalk
    /\ op.args = <<5, 9>>
    /\ op.ret = FALSE

\* no bit at all in the subtree
RECURSIVE NoBits(_)
NoBits(t) == t.bits.set = {} /\ \A k \in DOMAIN t.children : NoBits(t.children[k])

\* no node of after has a bit the same node of before had not
RECURSIVE NoGain(_, _)
NoGain(after, before) ==
    /\ after.bits.set \subseteq before.bits.set
    /\ \A k \in DOMAIN after.children :
          IF k \in DOMAIN before.children
          THEN NoGain(after.children[k], before.children[k])
          ELSE NoBits(after.children[k])

\* C2: InPlaceIntersection only removes bits: Has(i) afterwards implies
\* Has(i) before, the root keeps exactly the bits set in both operands, and
\* no node of the receiver's subtree gains a bit.
C2_IntersectionOnlyRemoves ==
    op.name = "InPlaceIntersection" =>
        /\ \A i \in AllIdx : Has(p, i) => Has(pre, i)
        /\ \A i \in AllIdx : Has(p, i) <=> (Has(pre, i) /\ Has(q, i))
        /\ NoGain(p, pre)

\* an intersection that removed a root bit, kept one, and refined the child
\* under the kept bit
C2_Witness ==
    /\ op.name = "InPlaceIntersection"
    /\ HasSet(p) # {}
    /\ HasSet(p) # HasSet(pre)
    /\ \E k \in DOMAIN pre.children \cap DOMAIN q.children :
          /\ Has(p, k)
          /\ HasSet(p.children[k]) # {}
          /\ HasSet(p.children[k]) # HasSet(pre.children[k])

\* C3: Union is commutative and idempotent on the bit vector: after
\* a.Union(b) and after b.Union(a) the indices that read true are the union
\* of the two original bit sets, and a.Union(a) changes no Has(i).
C3_UnionBitsCommutativeIdempotent ==
    /\ op.name = "Union" =>
          /\ HasSet(p) = HasSet(pre) \cup HasSet(q)
          /\ HasSet(p) = HasSet(Union(q, pre))
    /\ op.name = "UnionSwap" => HasSet(q) = HasSet(pre) \cup HasSet(p)
    /\ op.name = "UnionSelf" => \A i \in AllIdx : Has(p, i) = Has(pre, i)

\* a union to which each operand brought a bit the other had not
C3_Witness ==
    /\ op.name = "Union"
    /\ HasSet(pre) \ HasSet(q) # {}
    /\ HasSet(q) \ HasSet(pre) # {}

\* C4: after Set and Clear calls on an initially empty set, Has(i) is true
\* exactly when the most recent call naming i was a Set; an index never
\* passed to Set, also one beyond the length, reads false.
C4_LastCallDecides ==
    \A i \in 0..(MaxIdx + 1) : Has(p, i) <=> (i \in SCIdx /\ last[i] = "Set")

\* a Clear took away a bit that a Set had put there, another bit stays set
C4_Witness ==
    /\ op.name = "Clear"
    /\ \E i \in SCIdx : Has(pre, i) /\ ~Has(p, i) /\ last[i] = "Clear"
    /\ \E j \in SCIdx : Has(p, j)

\* the child-index list of the last map of sets that names k
RECURSIVE LastFor(_, _)
LastFor(sets, k) ==
    IF k \in DOMAIN sets[Len(sets)] THEN sets[Len(sets)][k]
    ELSE LastFor(SubSeq(sets, 1, Len(sets) - 1), k)

\* the layout of one result: the root bit, then one position per index of v
HasMultipleLayout(s, k, v) ==
    [n \in 1..(1 + Len(v)) |->
        IF n = 1 THEN Has(s, k)
        ELSE /\ Has(s, k)
             /\ k \in DOMAIN s.children
             /\ ~IsEmpty(s.children[k])
             /\ Has(s.children[k], v[n - 1])]

\* C5: for every requested key k with child-index list v, HasMultiple
\* returns the root bit of k at position 0 and at positions 1..len(v) whether
\* each index of v is set on the child at k (false when the root bit is unset
\* or the child has no bit); {5:[1,2]} on bit 5 with child {1} gives
\* {5: [true, true, false]}.
C5_HasMultipleLayout ==
    op.name = "HasMultiple" =>
        \A k \in DOMAIN op.ret : op.ret[k] = HasMultipleLayout(pre, k, LastFor(op.args, k))

\* same bit vector and same child indices at every level
RECURSIVE SameTree(_, _)
SameTree(a, b) ==
    /\ a.bits = b.bits
    /\ DOMAIN a.children = DOMAIN b.children
    /\ \A k \in DOMAIN a.children : SameTree(a.children[k], b.children[k])

QueryNames == {"Has", "All", "Any", "Walk", "HasMultiple", "IsEmpty", "Len"}

\* C6: Has, All, Any, Walk, HasMultiple, IsEmpty and Len are read-only: the
\* receiver's bit vector and child indices are the same at every level after
\* the call, and every Walk(path) answers as before.
C6_QueriesReadOnly ==
    op.name \in QueryNames =>
        /\ SameTree(p, pre)
        /\ \A path \in Paths : Walk(p, path) = Walk(pre, path)

PairPaths == SeqsUpTo(QIdx, PairDepth + 1)

\* C10: Union never revokes a hierarchical grant: a path that Walk grants on
\* the receiver before, or on the other operand, is granted on the receiver
\* after a.Union(b).
C10_UnionNeverRevokes ==
    op.name = "Union" =>
        \A path \in PairPaths : (Walk(pre, path) \/ Walk(q, path)) => Walk(p, path)

\* the size the frame of s is to declare: 24 + DATA_SIZE + the sum of
\* 8 + nested total size over its child blocks
RECURSIVE FrameSize(_)
FrameSize(s) ==
    LET sub[K \in SUBSET DOMAIN s.children] ==
            IF K = {} THEN 0
            ELSE LET k == Min(K) IN 8 + FrameSize(s.children[k]) + sub[K \ {k}]
    IN 24 + Len(BitsMarshalBinary(s.bits)) + sub[DOMAIN s.children]

TotalSizeSlot(data) == Value(Uvarint(Slice(data, 16, 24)).val)

\* the input of the last UnmarshalBinary was the whole output of MarshalBinary
DecodedWhole == op.name = "UnmarshalBinary" /\ op.args = <<"MarshalBinary">>

\* C7: binary round-trip: UnmarshalBinary on a fresh set with the output of
\* MarshalBinary reproduces the bits and the child indices at every level,
\* and the TOTAL_SIZE of the frame is 24 + DATA_SIZE + the sum of 8 + nested
\* total size over the child blocks, the frame's byte length.
C7_BinaryRoundTrip ==
    /\ op.name = "MarshalBinary" =>
          /\ TotalSizeSlot(buf.data) = FrameSize(p)
          /\ TotalSizeSlot(buf.data) = Len(buf.data)
    /\ (DecodedWhole /\ q = NewSet) => SameTree(dec.set, p)

\* the part of C7 the code keeps: trees whose identifiers all fit 7 bytes
RECURSIVE SmallIDs(_)
SmallIDs(s) == Len(s.ID) <= 7 /\ \A k \in DOMAIN s.children : SmallIDs(s.children[k])

RoundTripSmallIDs ==
    (DecodedWhole /\ q = NewSet /\ SmallIDs(p)) => (dec.err = "nil" /\ SameTree(dec.set, p))

RECURSIVE SameIDs(_, _)
SameIDs(a, b) ==
    /\ a.ID = b.ID
    /\ DOMAIN a.children = DOMAIN b.children
    /\ \A k \in DOMAIN a.children : SameIDs(a.children[k], b.children[k])

\* C8: the ID round-trips over its whole range: MarshalBinary writes its
\* variable-length encoding inside the first 8-byte slot, and UnmarshalBinary
\* of the output returns no error and the same ID on every node.
C8_IDRoundTrip ==
    /\ op.name = "MarshalBinary" =>
          /\ Len(PutUvarint(p.ID)) <= 8
          /\ Uvarint(Slice(buf.data, 0, 8)) = [val |-> p.ID, n |-> Len(PutUvarint(p.ID))]
    /\ DecodedWhole => (dec.err = "nil" /\ SameIDs(dec.set, p))

\* the offset of the first child block of the frame of s
FirstChild(s) == 24 + Len(BitsMarshalBinary(s.bits))

\* the prefix of n bytes ends inside the header or inside the index slot or
\* the nested header of the first child block
CutInsideSlot(s, n) ==
    \/ 0 < n /\ n < 24
    \/ DOMAIN s.children # {} /\ FirstChild(s) < n /\ n < FirstChild(s) + 32

\* C9: UnmarshalBinary of an input cut short inside an 8-byte integer slot
\* returns ErrBufTooSmall and ends in no other way; an input of length zero
\* returns no error and leaves the target set unmodified.
C9_TruncatedInput ==
    (op.name = "UnmarshalBinary" /\ op.args = <<"Truncate">>) =>
        /\ buf.len = 0 => (dec.err = "nil" /\ dec.set = q)
        /\ CutInsideSlot(p, buf.len) => dec.err = "ErrBufTooSmall"

\* the part of C9 the code keeps: the empty input
EmptyInputNoOp ==
    (op.name = "UnmarshalBinary" /\ buf.len = 0) => (dec.err = "nil" /\ dec.set = q)

====
